---- MODULE Spec2Model ----
(***************************************************************************)
(* Model of package munsell (src/munsell.go): classification of a colour   *)
(* given as a hex string, an RGB triple or an HSL triple into one of the   *)
(* named colours of type Color.                                            *)
(*                                                                         *)
(* Strings are sequences of bytes (Go strings indexed by byte), float64    *)
(* values are IEEE-754 binary64 numbers held as sign, 53-bit mantissa and   *)
(* exponent, with every arithmetic operation rounded to nearest, ties to   *)
(* even, as the Go code computes them.                                     *)
(***************************************************************************)
EXTENDS Integers, Sequences, FiniteSets, TLC

(***************************************************************************)
(* Natural numbers of arbitrary size: little-endian sequences of limbs in  *)
(* 0..Base-1 without high zero limbs (zero is the empty sequence).  They   *)
(* carry the 53-bit mantissas of float64 and the exact intermediate        *)
(* results that are rounded to float64.                                    *)
(***************************************************************************)
LimbBits == 10 + 10

RECURSIVE Pow2Rec(_)
Pow2Rec(n) == IF n = 0 THEN 1 ELSE 2 * Pow2Rec(n - 1)

Pow2Tab == [n \in 0..LimbBits |-> Pow2Rec(n)]

\* 2^n for n in 0..LimbBits
Pow2(n) == Pow2Tab[n]

Base == Pow2(LimbBits)

RECURSIVE BTrim(_)
BTrim(a) ==
    IF a = <<>> THEN <<>>
    ELSE IF a[Len(a)] = 0 THEN BTrim(SubSeq(a, 1, Len(a) - 1))
    ELSE a

RECURSIVE BFromInt(_)
BFromInt(n) == IF n = 0 THEN <<>> ELSE <<n % Base>> \o BFromInt(n \div Base)

RECURSIVE BToInt(_)
BToInt(a) == IF a = <<>> THEN 0 ELSE a[1] + Base * BToInt(Tail(a))

RECURSIVE BCmpFrom(_, _, _)
BCmpFrom(a, b, i) ==
    IF i = 0 THEN 0
    ELSE IF a[i] < b[i] THEN -1
    ELSE IF a[i] > b[i] THEN 1
    ELSE BCmpFrom(a, b, i - 1)

BCmp(a, b) ==
    IF Len(a) < Len(b) THEN -1
    ELSE IF Len(a) > Len(b) THEN 1
    ELSE BCmpFrom(a, b, Len(a))

Limb(a, i) == IF i <= Len(a) THEN a[i] ELSE 0

RECURSIVE BAddFrom(_, _, _, _)
BAddFrom(a, b, i, carry) ==
    IF i > Len(a) /\ i > Len(b)
    THEN (IF carry = 0 THEN <<>> ELSE <<carry>>)
    ELSE LET s == Limb(a, i) + Limb(b, i) + carry
         IN  <<s % Base>> \o BAddFrom(a, b, i + 1, s \div Base)

BAdd(a, b) == BAddFrom(a, b, 1, 0)

RECURSIVE BSubFrom(_, _, _, _)
BSubFrom(a, b, i, borrow) ==
    IF i > Len(a) THEN <<>>
    ELSE LET s == a[i] - Limb(b, i) - borrow
         IN  IF s < 0 THEN <<s + Base>> \o BSubFrom(a, b, i + 1, 1)
             ELSE <<s>> \o BSubFrom(a, b, i + 1, 0)

\* a - b for a >= b
BSub(a, b) == BTrim(BSubFrom(a, b, 1, 0))

RECURSIVE BMulFrom(_, _, _, _)
BMulFrom(a, k, i, carry) ==
    IF i > Len(a) THEN BFromInt(carry)
    ELSE LET p == a[i] * k + carry
         IN  <<p % Base>> \o BMulFrom(a, k, i + 1, p \div Base)

\* a * k for a small factor k (k < 2^10)
BMulSmall(a, k) == BTrim(BMulFrom(a, k, 1, 0))

RECURSIVE Zeros(_)
Zeros(n) == IF n = 0 THEN <<>> ELSE <<0>> \o Zeros(n - 1)

RECURSIVE BShlFrom(_, _, _, _)
BShlFrom(a, r, i, carry) ==
    IF i > Len(a) THEN (IF carry = 0 THEN <<>> ELSE <<carry>>)
    ELSE LET cut == Pow2(LimbBits - r)
         IN  <<(a[i] % cut) * Pow2(r) + carry>>
             \o BShlFrom(a, r, i + 1, a[i] \div cut)

\* a * 2^n
BShl(a, n) ==
    IF a = <<>> THEN <<>>
    ELSE Zeros(n \div LimbBits) \o BShlFrom(a, n % LimbBits, 1, 0)

RECURSIVE BShrFrom(_, _, _)
BShrFrom(a, r, i) ==
    IF i > Len(a) THEN <<>>
    ELSE <<(a[i] \div Pow2(r)) + (Limb(a, i + 1) % Pow2(r)) * Pow2(LimbBits - r)>>
         \o BShrFrom(a, r, i + 1)

\* a \div 2^n
BShr(a, n) ==
    IF n \div LimbBits >= Len(a) THEN <<>>
    ELSE BTrim(BShrFrom(SubSeq(a, (n \div LimbBits) + 1, Len(a)), n % LimbBits, 1))

RECURSIVE BitLenInt(_)
BitLenInt(n) == IF n = 0 THEN 0 ELSE 1 + BitLenInt(n \div 2)

BBitLen(a) == IF a = <<>> THEN 0 ELSE LimbBits * (Len(a) - 1) + BitLenInt(a[Len(a)])

BOdd(a) == a # <<>> /\ a[1] % 2 = 1

BOne == <<1>>

(***************************************************************************)
(* float64.  A value is sign * mant * 2^exp with mant in [2^52, 2^53), or  *)
(* zero (mant empty, sign 1, exp 0).  The values of this program are far   *)
(* from the subnormal and the overflow range, and no operation of the      *)
(* program yields NaN, an infinity or a negative zero on finite inputs.    *)
(***************************************************************************)
MantBits == 53

FZero == [sign |-> 1, mant |-> <<>>, exp |-> 0]

\* sign * q * 2^e for q of MantBits or MantBits + 1 bits, the last bit then 0
FNormal(sign, q, e) ==
    IF BBitLen(q) > MantBits
    THEN [sign |-> sign, mant |-> BShr(q, 1), exp |-> e + 1]
    ELSE [sign |-> sign, mant |-> q, exp |-> e]

\* t holds the mantissa and, last, the rounding bit; st tells of lower bits
FRoundBit(sign, t, e, st) ==
    FNormal(sign,
            IF BOdd(t) /\ (st \/ BOdd(BShr(t, 1))) THEN BAdd(BShr(t, 1), BOne) ELSE BShr(t, 1),
            e)

\* n has d bits more than a mantissa
FRoundOff(sign, n, e, sticky, d) ==
    FRoundBit(sign, BShr(n, d - 1), e + d, sticky \/ BShl(BShr(n, d - 1), d - 1) # n)

\* n has sh bits less than a mantissa
FExact(sign, n, e, sh) == [sign |-> sign, mant |-> BShl(n, sh), exp |-> e - sh]

\* sign * (n + a fraction in (0,1) when sticky) * 2^e, rounded to nearest even
FRound(sign, n, e, sticky) ==
    IF n = <<>> THEN FZero
    ELSE IF BBitLen(n) <= MantBits THEN FExact(sign, n, e, MantBits - BBitLen(n))
    ELSE FRoundOff(sign, n, e, sticky, BBitLen(n) - MantBits)

Abs(n) == IF n < 0 THEN -n ELSE n

\* float64(n) for an integer n
FFromInt(n) == FRound(IF n < 0 THEN -1 ELSE 1, BFromInt(Abs(n)), 0, FALSE)

\* n * 2^(-bits), exactly
FDyadic(n, bits) == FRound(IF n < 0 THEN -1 ELSE 1, BFromInt(Abs(n)), -bits, FALSE)

FNeg(x) == IF x.mant = <<>> THEN x ELSE [x EXCEPT !.sign = -x.sign]

\* magnitudes: -1, 0, 1
FCmpMag(x, y) ==
    IF x.mant = <<>> /\ y.mant = <<>> THEN 0
    ELSE IF x.mant = <<>> THEN -1
    ELSE IF y.mant = <<>> THEN 1
    ELSE IF x.exp < y.exp THEN -1
    ELSE IF x.exp > y.exp THEN 1
    ELSE BCmp(x.mant, y.mant)

FCmp(x, y) ==
    IF x.sign # y.sign THEN x.sign
    ELSE x.sign * FCmpMag(x, y)

FLt(x, y) == FCmp(x, y) < 0
FLe(x, y) == FCmp(x, y) <= 0

\* sx * nx * 2^e + sy * ny * 2^e, rounded
FAddAligned(sx, nx, sy, ny, e) ==
    FRound(IF sx = sy \/ BCmp(nx, ny) >= 0 THEN sx ELSE sy,
           IF sx = sy THEN BAdd(nx, ny)
           ELSE IF BCmp(nx, ny) >= 0 THEN BSub(nx, ny)
           ELSE BSub(ny, nx),
           e, FALSE)

MinInt(m, n) == IF m < n THEN m ELSE n

FAdd(x, y) ==
    IF x.mant = <<>> THEN y
    ELSE IF y.mant = <<>> THEN x
    ELSE FAddAligned(x.sign, BShl(x.mant, x.exp - MinInt(x.exp, y.exp)),
                     y.sign, BShl(y.mant, y.exp - MinInt(x.exp, y.exp)),
                     MinInt(x.exp, y.exp))

FSub(x, y) == FAdd(x, FNeg(y))

\* x * float64(k) for a small positive integer k
FMulInt(x, k) == FRound(x.sign, BMulSmall(x.mant, k), x.exp, FALSE)

\* The quotient of a division is developed DivDigits digits of DigitBits bits
\* beyond the integer part of the mantissa ratio: at least MantBits + 2 bits.
DigitBits == 8
DivDigits == 7
DivBits   == DigitBits * DivDigits
TopShift  == 32

\* the bits of a above bit TopShift, as an integer
BTop(a) == BToInt(BShr(a, TopShift))

\* the estimate digit of the quotient digit never exceeds it: raise it until
\* the remainder is below the divisor.  <<digit, remainder>>
RECURSIVE DivFix(_, _, _)
DivFix(digit, r, d) ==
    IF BCmp(r, d) >= 0 THEN DivFix(digit + 1, BSub(r, d), d) ELSE <<digit, r>>

\* the quotient q2 with the digit of dr = <<digit, remainder>> added
DivAppend(q2, dr) == <<BAdd(q2, BFromInt(dr[1])), dr[2]>>

\* one quotient digit: q2 and r2 are the quotient and the remainder shifted
DivDigit(q2, r2, d) ==
    DivAppend(q2, DivFix(BTop(r2) \div (BTop(d) + 1),
                         BSub(r2, BMulSmall(d, BTop(r2) \div (BTop(d) + 1))),
                         d))

\* long division, one quotient digit per step, on qr = <<quotient, remainder>>
RECURSIVE DivSteps(_, _, _)
DivSteps(qr, d, n) ==
    IF n = 0 THEN qr
    ELSE DivSteps(DivDigit(BShl(qr[1], DigitBits), BShl(qr[2], DigitBits), d), d, n - 1)

\* sign * (qr[1] + qr[2] / d) * 2^e, rounded
FQuotient(sign, qr, e) == FRound(sign, qr[1], e, qr[2] # <<>>)

\* x / y for y # 0
FDiv(x, y) ==
    IF x.mant = <<>> THEN FZero
    ELSE FQuotient(x.sign * y.sign,
                   DivSteps(DivAppend(<<>>, DivFix(0, x.mant, y.mant)), y.mant, DivDigits),
                   x.exp - y.exp - DivBits)

\* math.Max, math.Min on finite values
MathMax(x, y) == IF FCmp(x, y) >= 0 THEN x ELSE y
MathMin(x, y) == IF FCmp(x, y) <= 0 THEN x ELSE y

\* the magnitude q of the integer part and whether a fraction was cut
FloorOf(sign, q, frac) ==
    IF sign = 1 THEN BToInt(q) ELSE -(BToInt(q) + (IF frac THEN 1 ELSE 0))

\* mutant: truncation toward zero
MathTrunc(x) ==
    IF x.mant = <<>> THEN 0
    ELSE IF x.exp >= 0 THEN x.sign * BToInt(BShl(x.mant, x.exp))
    ELSE FloorOf(x.sign, BShr(x.mant, -x.exp), FALSE)

\* math.Floor, as an integer (the values of the model are below 2^31)
MathFloor(x) ==
    IF x.mant = <<>> THEN 0
    ELSE IF x.exp >= 0 THEN x.sign * BToInt(BShl(x.mant, x.exp))
    ELSE FloorOf(x.sign, BShr(x.mant, -x.exp), BShl(BShr(x.mant, -x.exp), -x.exp) # x.mant)

(***************************************************************************)
(* type Color and its constants                                            *)
(***************************************************************************)
Unknown   == "Unknown"
White     == "White"
Black     == "Black"
Red       == "Red"
Orange    == "Orange"
Yellow    == "Yellow"
Green     == "Green"
LightBlue == "LightBlue"
Blue      == "Blue"
Purple    == "Purple"

Color == {Unknown, White, Black, Red, Orange, Yellow, Green, LightBlue, Blue, Purple}

(***************************************************************************)
(* getHSLFromRGB                                                           *)
(***************************************************************************)
\* mutant: the shift is also added to a zero segment
RedShiftOnZero(segment) == IF FLe(segment, FZero) THEN FFromInt(360 \div 60) ELSE FZero

\* shift of the red branch: 360/60 on a negative segment
RedShift(segment) == IF FLt(segment, FZero) THEN FFromInt(360 \div 60) ELSE FZero

\* the red branch
RedHue(segment) == FAdd(segment, RedShift(segment))

\* the hue before it is scaled by 60
HueSextant(r, g, b, max, c) ==
    IF c = FZero THEN FZero
    ELSE IF max = r THEN RedHue(FDiv(FSub(g, b), c))
    ELSE IF max = g THEN FAdd(FDiv(FSub(b, r), c), FFromInt(120 \div 60))
    ELSE IF max = b THEN FAdd(FDiv(FSub(r, g), c), FFromInt(240 \div 60))
    ELSE FZero

\* the result, from the chroma c on
HSLOfChroma(r, g, b, max, min, c) ==
    [Hue        |-> FMulInt(HueSextant(r, g, b, max, c), 60),
     Saturation |-> FMulInt(c, 100),
     Lightness  |-> FMulInt(FAdd(max, min), 50)]

\* from the scaled channels on
HSLOfChannels(r, g, b) ==
    HSLOfChroma(r, g, b,
                MathMax(MathMax(r, g), b),
                MathMin(MathMin(r, g), b),
                FSub(MathMax(MathMax(r, g), b), MathMin(MathMin(r, g), b)))

getHSLFromRGB(rgb) ==
    HSLOfChannels(FDiv(FFromInt(rgb.Red), FFromInt(255)),
                  FDiv(FFromInt(rgb.Green), FFromInt(255)),
                  FDiv(FFromInt(rgb.Blue), FFromInt(255)))

(***************************************************************************)
(* matchColorFromHSL                                                       *)
(***************************************************************************)
\* mutant: the LightBlue interval starts one degree late
HueRulesGap(h, s) ==
    IF (h >= 0 /\ h <= 16) \/ h >= 346 THEN Red
    ELSE IF h > 16 /\ h <= 36 THEN (IF s < 90 THEN Orange ELSE Orange)
    ELSE IF h > 36 /\ h <= 64 THEN (IF s < 90 THEN Yellow ELSE Yellow)
    ELSE IF h > 64 /\ h <= 165 THEN Green
    ELSE IF h > 166 /\ h <= 208 THEN LightBlue
    ELSE IF h > 208 /\ h <= 260 THEN Blue
    ELSE IF h > 260 /\ h <= 290 THEN Purple
    ELSE IF h > 290 /\ h <= 345 THEN Purple
    ELSE Unknown

\* mutant: the Red/Orange and the Purple/Red boundaries are off by one
HueRulesShifted(h, s) ==
    IF (h >= 0 /\ h <= 17) \/ h >= 345 THEN Red
    ELSE IF h > 17 /\ h <= 36 THEN (IF s < 90 THEN Orange ELSE Orange)
    ELSE IF h > 36 /\ h <= 64 THEN (IF s < 90 THEN Yellow ELSE Yellow)
    ELSE IF h > 64 /\ h <= 165 THEN Green
    ELSE IF h > 165 /\ h <= 208 THEN LightBlue
    ELSE IF h > 208 /\ h <= 260 THEN Blue
    ELSE IF h > 260 /\ h <= 290 THEN Purple
    ELSE IF h > 290 /\ h < 345 THEN Purple
    ELSE Unknown

\* the hue rules of matchColorFromHSL, on the floored hue and saturation
HueRules(h, s) ==
    IF (h >= 0 /\ h <= 16) \/ h >= 346 THEN Red
    ELSE IF h > 16 /\ h <= 36 THEN (IF s < 90 THEN Orange ELSE Orange)
    ELSE IF h > 36 /\ h <= 64 THEN (IF s < 90 THEN Yellow ELSE Yellow)
    ELSE IF h > 64 /\ h <= 165 THEN Green
    ELSE IF h > 165 /\ h <= 208 THEN LightBlue
    ELSE IF h > 208 /\ h <= 260 THEN Blue
    ELSE IF h > 260 /\ h <= 290 THEN Purple
    ELSE IF h > 290 /\ h <= 345 THEN Purple
    ELSE Unknown

\* mutant: White needs a lightness above 90
RulesStrictWhite(h, s, l) ==
    IF s <= 10 /\ l > 90 THEN White
    ELSE IF l <= 13 THEN Black
    ELSE IF (s <= 10 /\ l <= 70) \/ s = 0 THEN Black
    ELSE HueRules(h, s)

\* the rules of matchColorFromHSL, on the floored values
Rules(h, s, l) ==
    IF s <= 10 /\ l >= 90 THEN White
    ELSE IF l <= 13 THEN Black
    ELSE IF (s <= 10 /\ l <= 70) \/ s = 0 THEN Black
    ELSE HueRules(h, s)

matchColorFromHSL(hsl) ==
    Rules(MathFloor(hsl.Hue), MathFloor(hsl.Saturation), MathFloor(hsl.Lightness))

GetColorFromRGB(rgb) == matchColorFromHSL(getHSLFromRGB(rgb))

GetColorFromHSL(hsl) == matchColorFromHSL(hsl)

(***************************************************************************)
(* Strings: sequences of bytes.  hexColor[lo:hi] is Slice(hexColor, lo, hi) *)
(***************************************************************************)
Slice(s, lo, hi) == SubSeq(s, lo + 1, hi)

Hash == 35

\* lower(c) of strconv: c | ('x' - 'X'), which sets bit 5
Lower(c) == IF (c \div 32) % 2 = 0 THEN c + 32 ELSE c

\* the digit value strconv.ParseUint gives a byte, -1 for a byte it rejects
DigitVal(c) ==
    IF 48 <= c /\ c <= 57 THEN c - 48
    ELSE IF 97 <= Lower(c) /\ Lower(c) <= 122 THEN Lower(c) - 97 + 10
    ELSE -1

RECURSIVE ParseDigits(_, _, _, _)
ParseDigits(s, base, maxVal, n) ==
    IF s = <<>> THEN [val |-> n, err |-> "nil"]
    ELSE LET d == DigitVal(Head(s))
         IN  IF d < 0 \/ d >= base THEN [val |-> 0, err |-> "syntax"]
             ELSE IF n * base + d > maxVal THEN [val |-> maxVal, err |-> "range"]
             ELSE ParseDigits(Tail(s), base, maxVal, n * base + d)

\* strconv.ParseUint(s, base, bitSize) for a base in 2..36 given explicitly
ParseUint(s, base, bitSize) ==
    IF s = <<>> THEN [val |-> 0, err |-> "syntax"]
    ELSE ParseDigits(s, base, Pow2(bitSize) - 1, 0)

ZeroRGB == [Red |-> 0, Green |-> 0, Blue |-> 0]
ZeroHSL == [Hue |-> FZero, Saturation |-> FZero, Lightness |-> FZero]

\* mutant: green and blue read from each other's digit pair
getRGBFromHexSwapped(hexColor) ==
    LET red   == ParseUint(Slice(hexColor, 0, 2), 16, 8)
        green == ParseUint(Slice(hexColor, 4, 6), 16, 8)
        blue  == ParseUint(Slice(hexColor, 2, 4), 16, 8)
    IN  IF red.err # "nil" \/ green.err # "nil" \/ blue.err # "nil"
        THEN [panic |-> TRUE, rgb |-> [Red |-> 0, Green |-> 0, Blue |-> 0]]
        ELSE [panic |-> FALSE,
              rgb   |-> [Red |-> red.val % 256, Green |-> green.val % 256, Blue |-> blue.val % 256]]

\* getRGBFromHex panics on the first pair that does not parse
getRGBFromHex(hexColor) ==
    LET red   == ParseUint(Slice(hexColor, 0, 2), 16, 8)
        green == ParseUint(Slice(hexColor, 2, 4), 16, 8)
        blue  == ParseUint(Slice(hexColor, 4, 6), 16, 8)
    IN  IF red.err # "nil" \/ green.err # "nil" \/ blue.err # "nil"
        THEN [panic |-> TRUE, rgb |-> ZeroRGB]
        ELSE [panic |-> FALSE,
              rgb   |-> [Red |-> red.val % 256, Green |-> green.val % 256, Blue |-> blue.val % 256]]

NilError == [nil |-> TRUE, text |-> <<>>]

\* fmt.Errorf("invalid hex color code: %s", hexColor)
Errorf(hexColor) == [nil |-> FALSE, text |-> hexColor]

\* mutant: the three digits repeated instead of each digit doubled
ShorthandRepeated(hexColor) == Slice(hexColor, 0, 3) \o Slice(hexColor, 0, 3)

\* the argument of getRGBFromHex in case 3
Shorthand(hexColor) ==
    Slice(hexColor, 0, 1) \o Slice(hexColor, 0, 1) \o Slice(hexColor, 1, 2)
    \o Slice(hexColor, 1, 2) \o Slice(hexColor, 2, 3) \o Slice(hexColor, 2, 3)

\* mutant: the leading byte dropped instead of the trailing one
WithoutLeadingByte(hexColor) == Slice(hexColor, 2, 8)

\* the argument of getRGBFromHex in case 8
WithoutAlpha(hexColor) == Slice(hexColor, 0, 6)

\* the leading '#' removed
StripHash(hexColor) ==
    IF hexColor[1] = Hash THEN Slice(hexColor, 1, Len(hexColor)) ELSE hexColor

\* the end of cases 3, 6 and 8 on the outcome res of getRGBFromHex
ColorOfRGB(res) ==
    IF res.panic
    THEN [pc |-> "panic", color |-> Unknown, err |-> NilError, rgb |-> ZeroRGB]
    ELSE [pc |-> "return", color |-> GetColorFromRGB(res.rgb), err |-> NilError,
          rgb |-> res.rgb]

\* the switch on the length of the stripped string
SwitchLen(hexColor) ==
    IF Len(hexColor) \in {3, 6, 8}
    THEN ColorOfRGB(getRGBFromHex(
             IF Len(hexColor) = 3 THEN Shorthand(hexColor)
             ELSE IF Len(hexColor) = 6 THEN hexColor
             ELSE WithoutAlpha(hexColor)))
    ELSE [pc |-> "return", color |-> Unknown, err |-> Errorf(hexColor), rgb |-> ZeroRGB]

\* GetColorFromHex: how the call ends (return or panic), the results and the
\* local rgb.  Indexing the empty string panics.
GetColorFromHex(arg) ==
    IF Len(arg) = 0
    THEN [pc |-> "panic", color |-> Unknown, err |-> NilError, rgb |-> ZeroRGB]
    ELSE SwitchLen(StripHash(arg))

(***************************************************************************)
(* The inputs of the calls                                                 *)
(***************************************************************************)
MaxShort      == 3
MaxPairs      == 4
ChannelStride == 25
HueFracBits   == 1
HueMargin     == 3

\* '#', '0', '8', '@', 'F', 'f', 'g'
HexChars == {35, 48, 56, 64, 70, 102, 103}

\* "00", "0F", "80", "a5", "fF", "g0"
HexPairs == {<<48, 48>>, <<48, 70>>, <<56, 48>>, <<97, 53>>, <<102, 70>>, <<103, 48>>}

\* nothing, "0", "g"
HexTails == {<<>>, <<48>>, <<103>>}

RECURSIVE SeqsOver(_, _)
SeqsOver(S, n) ==
    IF n = 0 THEN {<<>>}
    ELSE {<<x>> \o t : x \in S, t \in SeqsOver(S, n - 1)}

RECURSIVE PairSeqs(_)
PairSeqs(n) ==
    IF n = 0 THEN {<<>>}
    ELSE {p \o t : p \in HexPairs, t \in PairSeqs(n - 1)}

HexBodies ==
    UNION {SeqsOver(HexChars, n) : n \in 0..MaxShort}
    \cup {b \o t : b \in UNION {PairSeqs(n) : n \in 2..MaxPairs}, t \in HexTails}

HexInputs == HexBodies \cup {<<Hash>> \o b : b \in HexBodies}

ChannelSamples ==
    {v \in 0..255 : v % ChannelStride = 0} \cup {1, 20, 37, 139, 217, 222, 242, 254, 255}

RGBInputs ==
    {[Red |-> v, Green |-> v, Blue |-> v] : v \in 0..255}
    \cup [Red : ChannelSamples, Green : ChannelSamples, Blue : ChannelSamples]

HueSamples ==
    {FDyadic(k, HueFracBits) :
        k \in (-HueMargin * Pow2(HueFracBits))..((360 + HueMargin) * Pow2(HueFracBits))}
    \cup {FDyadic(-1, 30), FDyadic(-3, 30), FFromInt(-720), FFromInt(720), FFromInt(1000000),
          FDyadic(17 * Pow2(20) - 1, 20), FDyadic(346 * Pow2(20) - 1, 20)}

\* -0.5, 0, 0.5, 10.5, 11, 89.5, 100, 250
SatSamples == {FDyadic(k, 1) : k \in {-1, 0, 1, 21, 22, 179, 200, 500}}

\* -20, 13.5, 14, 70.5, 71, 89.5, 90, 100
LightSamples == {FDyadic(k, 1) : k \in {-40, 27, 28, 141, 142, 179, 180, 200}}

HSLInputs == [Hue : HueSamples, Saturation : SatSamples, Lightness : LightSamples]

(***************************************************************************)
(* The calls.  A call is made once with its argument (pc = "call") and     *)
(* ends by returning (pc = "return") or by panicking (pc = "panic").       *)
(***************************************************************************)
VARIABLES pc, fn, hexColor, rgb, hsl, color, err

vars == <<pc, fn, hexColor, rgb, hsl, color, err>>

Init ==
    /\ pc = "call"
    /\ color = Unknown
    /\ err = NilError
    /\ \/ fn = "GetColorFromHex" /\ hexColor \in HexInputs /\ rgb = ZeroRGB /\ hsl = ZeroHSL
       \/ fn = "GetColorFromRGB" /\ hexColor = <<>> /\ rgb \in RGBInputs /\ hsl = ZeroHSL
       \/ fn = "GetColorFromHSL" /\ hexColor = <<>> /\ rgb = ZeroRGB /\ hsl \in HSLInputs

CallGetColorFromHex ==
    /\ pc = "call"
    /\ fn = "GetColorFromHex"
    /\ \E res \in {GetColorFromHex(hexColor)} :
           /\ pc' = res.pc
           /\ color' = res.color
           /\ err' = res.err
           /\ rgb' = res.rgb
           /\ hsl' = IF res.pc = "return" /\ res.err.nil THEN getHSLFromRGB(res.rgb) ELSE ZeroHSL
    /\ UNCHANGED <<fn, hexColor>>

CallGetColorFromRGB ==
    /\ pc = "call"
    /\ fn = "GetColorFromRGB"
    /\ hsl' = getHSLFromRGB(rgb)
    /\ color' = matchColorFromHSL(hsl')
    /\ pc' = "return"
    /\ UNCHANGED <<fn, hexColor, rgb, err>>

CallGetColorFromHSL ==
    /\ pc = "call"
    /\ fn = "GetColorFromHSL"
    /\ color' = GetColorFromHSL(hsl)
    /\ pc' = "return"
    /\ UNCHANGED <<fn, hexColor, rgb, hsl, err>>

Next == CallGetColorFromHex \/ CallGetColorFromRGB \/ CallGetColorFromHSL

Spec == Init /\ [][Next]_vars

(***************************************************************************)
(* Vocabulary of the properties                                            *)
(***************************************************************************)
HexCall == fn = "GetColorFromHex" /\ pc # "call"
RGBCall == fn = "GetColorFromRGB" /\ pc # "call"
HSLCall == fn = "GetColorFromHSL" /\ pc # "call"

\* the argument without one leading '#'
Body(s) == IF s # <<>> /\ s[1] = Hash THEN Tail(s) ELSE s

\* '0'..'9', 'A'..'F', 'a'..'f'
IsHexDigit(c) == c \in (48..57) \cup (65..70) \cup (97..102)

AllHex(s) == \A i \in 1..Len(s) : IsHexDigit(s[i])

HexValue(c) ==
    CASE c \in 48..57  -> c - 48
      [] c \in 65..70  -> c - 55
      [] c \in 97..102 -> c - 87

\* the triple a six-digit string denotes
ManualRGB(b) ==
    [Red   |-> 16 * HexValue(b[1]) + HexValue(b[2]),
     Green |-> 16 * HexValue(b[3]) + HexValue(b[4]),
     Blue  |-> 16 * HexValue(b[5]) + HexValue(b[6])]

ToUpper(s) == [i \in 1..Len(s) |-> IF s[i] \in 97..122 THEN s[i] - 32 ELSE s[i]]
ToLower(s) == [i \in 1..Len(s) |-> IF s[i] \in 65..90 THEN s[i] + 32 ELSE s[i]]

HasUpper(s) == \E i \in 1..Len(s) : s[i] \in 65..90
HasLower(s) == \E i \in 1..Len(s) : s[i] \in 97..122

\* what a call of GetColorFromHex gives: how it ends and its two results
Outcome(res) == <<res.pc, res.color, res.err>>

\* rules 1 to 3 of the classifier, stated on the values before flooring
\* (floor(x) <= n is x < n + 1, floor(x) >= n is x >= n, for an integer n)
RuleWhite(v) ==
    FLt(v.Saturation, FFromInt(11)) /\ FLe(FFromInt(90), v.Lightness)
RuleBlack(v) ==
    \/ FLt(v.Lightness, FFromInt(14))
    \/ FLt(v.Saturation, FFromInt(11)) /\ FLt(v.Lightness, FFromInt(71))
    \/ FLe(FZero, v.Saturation) /\ FLt(v.Saturation, FFromInt(1))

\* the colour the classifier gives a value whose hue rule yields c
Prioritised(v, c) == IF RuleWhite(v) THEN White ELSE IF RuleBlack(v) THEN Black ELSE c

(***************************************************************************)
(* Properties                                                              *)
(***************************************************************************)

\* C1: a call of GetColorFromHex whose argument, one leading '#' removed, has
\* a length other than 3, 6 and 8 (the empty string included) returns Unknown
\* and a non-nil error, and does not panic.
C1_InvalidLengthIsAnError ==
    (HexCall /\ Len(Body(hexColor)) \notin {3, 6, 8})
        => (pc = "return" /\ color = Unknown /\ ~err.nil)

\* C2: a call of GetColorFromHex whose argument has an accepted length and a
\* byte that is not a hex digit (in the alpha byte too) returns a non-nil
\* error and does not panic.
C2_BadDigitIsAnError ==
    (HexCall /\ Len(Body(hexColor)) \in {3, 6, 8} /\ ~AllHex(Body(hexColor)))
        => (pc = "return" /\ ~err.nil)

\* C3: on six hex digits, with or without '#', GetColorFromHex returns a nil
\* error and the colour GetColorFromRGB gives the triple of the three digit
\* pairs, whatever the letter case of the digits.
C3_SixDigitsDecode ==
    (HexCall /\ Len(Body(hexColor)) = 6 /\ AllHex(Body(hexColor)))
        => /\ pc = "return"
           /\ err.nil
           /\ rgb = ManualRGB(Body(hexColor))
           /\ color = GetColorFromRGB(ManualRGB(Body(hexColor)))
           /\ Outcome(GetColorFromHex(ToUpper(hexColor))) = <<pc, color, err>>
           /\ Outcome(GetColorFromHex(ToLower(hexColor))) = <<pc, color, err>>

C3_Witness ==
    /\ HexCall /\ pc = "return"
    /\ Len(Body(hexColor)) = 6 /\ AllHex(Body(hexColor))
    /\ hexColor[1] = Hash
    /\ HasUpper(hexColor) /\ HasLower(hexColor)
    /\ rgb.Green # rgb.Blue
    /\ color = Green

\* C4: on three hex digits x, y, z, with or without '#', GetColorFromHex ends
\* as it does on the six digits xxyyzz, with the same colour and error.
C4_ShorthandIsDoubling ==
    (HexCall /\ Len(Body(hexColor)) = 3 /\ AllHex(Body(hexColor)))
        => LET b   == Body(hexColor)
               six == <<b[1], b[1], b[2], b[2], b[3], b[3]>>
           IN  /\ Outcome(GetColorFromHex(six)) = <<pc, color, err>>
               /\ Outcome(GetColorFromHex(<<Hash>> \o six)) = <<pc, color, err>>

C4_Witness ==
    /\ HexCall /\ pc = "return" /\ err.nil
    /\ Len(Body(hexColor)) = 3 /\ AllHex(Body(hexColor))
    /\ Body(hexColor)[1] # Body(hexColor)[2]
    /\ Body(hexColor)[2] # Body(hexColor)[3]
    /\ color = Green

\* C5: on eight hex digits, with or without '#', GetColorFromHex returns a nil
\* error and the colour it returns on the first six digits, whatever the
\* last two.
C5_AlphaIsIgnored ==
    (HexCall /\ Len(Body(hexColor)) = 8 /\ AllHex(Body(hexColor)))
        => LET six == GetColorFromHex(SubSeq(Body(hexColor), 1, 6))
           IN  /\ pc = "return" /\ err.nil
               /\ six.pc = "return" /\ six.err.nil
               /\ color = six.color

C5_Witness ==
    /\ HexCall /\ pc = "return" /\ err.nil
    /\ Len(Body(hexColor)) = 8 /\ AllHex(Body(hexColor))
    /\ SubSeq(Body(hexColor), 7, 8) # SubSeq(Body(hexColor), 1, 2)
    /\ color = Blue

\* C6: the HSL value getHSLFromRGB computes has its hue in [0, 360), never
\* 360 and never negative, and its saturation and lightness in [0, 100].
C6_HSLInRange ==
    ((RGBCall \/ HexCall) /\ pc = "return" /\ err.nil)
        => /\ FLe(FZero, hsl.Hue) /\ FLt(hsl.Hue, FFromInt(360))
           /\ FLe(FZero, hsl.Saturation) /\ FLe(hsl.Saturation, FFromInt(100))
           /\ FLe(FZero, hsl.Lightness) /\ FLe(hsl.Lightness, FFromInt(100))

\* the red branch with its wraparound shift, next to 360
C6_Witness ==
    /\ RGBCall /\ pc = "return"
    /\ rgb.Red > rgb.Blue /\ rgb.Blue > rgb.Green
    /\ FLt(FFromInt(359), hsl.Hue)

\* C7: the classifier never answers Unknown on a hue in [0, 360), and
\* GetColorFromRGB never returns Unknown.
C7_UnknownUnreachable ==
    /\ (HSLCall /\ FLe(FZero, hsl.Hue) /\ FLt(hsl.Hue, FFromInt(360))) => color # Unknown
    /\ RGBCall => color # Unknown

\* a hue strictly between 345 and 346, past rules 1 to 3
C7_Witness ==
    /\ HSLCall
    /\ FLt(FFromInt(345), hsl.Hue) /\ FLt(hsl.Hue, FFromInt(346))
    /\ color = Purple

\* C8: hue 16 is Red, 17 Orange, 345 Purple and 346 Red wherever none of
\* rules 1 to 3 matches; where one of them matches it decides the colour.
C8_HueBoundaries ==
    HSLCall =>
        /\ hsl.Hue = FFromInt(16)  => color = Prioritised(hsl, Red)
        /\ hsl.Hue = FFromInt(17)  => color = Prioritised(hsl, Orange)
        /\ hsl.Hue = FFromInt(345) => color = Prioritised(hsl, Purple)
        /\ hsl.Hue = FFromInt(346) => color = Prioritised(hsl, Red)

C8_Witness ==
    /\ HSLCall
    /\ hsl.Hue = FFromInt(17)
    /\ ~RuleWhite(hsl) /\ ~RuleBlack(hsl)
    /\ color = Orange

\* C9: a gray triple v, v, v has hue 0 and saturation 0 and is White from
\* v = 230 on (floored lightness at least 90) and Black below; 0, 0, 0 has
\* lightness 0 and 255, 255, 255 has lightness 100.
C9_Achromatic ==
    (RGBCall /\ rgb.Red = rgb.Green /\ rgb.Green = rgb.Blue)
        => /\ hsl.Hue = FZero
           /\ hsl.Saturation = FZero
           /\ FLe(FFromInt(90), hsl.Lightness) <=> rgb.Red >= 230
           /\ color = IF rgb.Red >= 230 THEN White ELSE Black
           /\ rgb.Red = 0 => hsl.Lightness = FZero
           /\ rgb.Red = 255 => hsl.Lightness = FFromInt(100)

\* the darkest White gray
C9_Witness ==
    /\ RGBCall
    /\ rgb = [Red |-> 230, Green |-> 230, Blue |-> 230]
    /\ color = White

\* C10: GetColorFromHSL returns on every finite value, and returns Unknown
\* exactly when none of rules 1 to 3 matches and the floored hue is negative:
\* a hue of 360 or more is Red, a hue in (-1, 0) is Unknown.
C10_UnknownIffNegativeHue ==
    HSLCall =>
        /\ pc = "return"
        /\ color = Unknown <=> (~RuleWhite(hsl) /\ ~RuleBlack(hsl) /\ FLt(hsl.Hue, FZero))
        /\ FLe(FFromInt(360), hsl.Hue) => color = Prioritised(hsl, Red)
        /\ (FLt(FFromInt(-1), hsl.Hue) /\ FLt(hsl.Hue, FZero)) => color = Prioritised(hsl, Unknown)

\* a hue in (-1, 0) that is floored to -1
C10_Witness ==
    /\ HSLCall
    /\ FLt(FFromInt(-1), hsl.Hue) /\ FLt(hsl.Hue, FZero)
    /\ color = Unknown

====
